---- MODULE Spec2Model ----
(***************************************************************************)
(* A model of harvest_helpers.py: the catalog upsert (upsert_dataset,      *)
(* upsert_datasets, add_resources_to_list) against a CKAN catalog, and the *)
(* layer-name parser (parse_name).                                         *)
(***************************************************************************)
EXTENDS Integers, Sequences, FiniteSets, TLC

VARIABLES
    catalog,                  \* the CKAN catalog: package name -> stored package
    pc,                       \* where the harvester is
    caller,                   \* who called upsert_dataset: "direct" or "batch"
    remaining,                \* datasets of the batch not yet reached by the comprehension
    overwrite_metadata,       \* argument of the running call (default True)
    drop_existing_resources,  \* argument of the running call (default True)
    data_dict,                \* upsert_dataset: the caller's draft (a shared dict)
    new_resources,            \* upsert_dataset: local, line 547
    package,                  \* upsert_dataset: local, lines 553 / 561 / 603
    log,                      \* catalog calls issued by the running upsert_dataset
    result,                   \* what the last upsert_dataset gave its caller
    given,                    \* history: the draft as the caller handed it over
    pre,                      \* history: what the catalog stored when it was probed
    prev,                     \* history: the upsert_dataset call before the running one
    title_words,              \* the words a layer title is made of
    spacing,                  \* how the words of the title are spaced
    layer_title,              \* parse_name: the argument
    parsed,                   \* parse_name: what the call gave, once it is over
    mapper_call,              \* wxs_to_dict / gs28_to_ckan: the arguments of the call
    layer_dict,               \* wxs_to_dict / gs28_to_ckan: what the call gave
    layers,                   \* get_layer_dict: the titles of the layers of the service
    datasets                  \* get_layer_dict: what the call gave

upsert_vars == <<catalog, pc, caller, remaining, overwrite_metadata,
                 drop_existing_resources, data_dict, new_resources, package,
                 log, result, given, pre, prev>>
parser_vars == <<title_words, spacing, layer_title, parsed>>
mapper_vars == <<mapper_call, layer_dict, layers, datasets>>
vars == <<upsert_vars, parser_vars, mapper_vars>>

----------------------------------------------------------------------------
(* Bounds of the model *)

\* longest list of datasets handed to upsert_datasets
MaxBatch == 2
\* longest resource list of a draft
MaxRes == 2
\* most words of a layer title
MaxWords == 5

----------------------------------------------------------------------------
(* Values *)

\* Python's None, where a dict or a list is expected
None == [none |-> TRUE]
\* Python's None as the value of the "name" key
NoneName == "<None>"
\* Python's None where a string of characters is expected
NoneString == <<"<None>">>

Names == {"n1"}
Titles == {"t1", "t2"}
\* urls the harvested drafts carry; the catalog may also hold url "a"
DraftUrls == {"b", "c"}

Resource(u, f) == [url |-> u, format |-> f]

RECURSIVE SeqsUpTo(_, _)
SeqsUpTo(S, n) ==
    IF n = 0 THEN {<<>>}
    ELSE LET shorter == SeqsUpTo(S, n - 1)
         IN  shorter \cup {Append(s, x) : s \in {t \in shorter : Len(t) = n - 1}, x \in S}

\* resource lists of a draft: every resource of one draft has the draft's format
DraftResources(f) == SeqsUpTo({Resource(u, f) : u \in DraftUrls}, MaxRes)

\* the drafts a mapper hands over: named ones, one whose name is None, one
\* without a "name" key
NamedDrafts ==
    {[name |-> n, title |-> t, resources |-> rs] :
        n \in Names, t \in Titles, rs \in DraftResources("wms")}
NoneNamedDraft == [name |-> NoneName, title |-> "t1", resources |-> <<Resource("b", "wms")>>]
NamelessDraft == [title |-> "t1", resources |-> <<Resource("b", "wms")>>]
Drafts == NamedDrafts \cup {NoneNamedDraft, NamelessDraft}

\* a package somebody curated by hand before the harvest
CuratedPackage(n) ==
    [name |-> n, title |-> "t0",
     resources |-> <<Resource("a", "pdf"), Resource("b", "pdf")>>]

Urls(rs) == {rs[i].url : i \in 1..Len(rs)}
UrlSeq(rs) == [i \in 1..Len(rs) |-> rs[i].url]
NoDuplicateUrls(rs) == \A i, j \in 1..Len(rs) : rs[i].url = rs[j].url => i = j

----------------------------------------------------------------------------
(* add_resource_to_list / add_resources_to_list *)

\* a variant that lets the incoming resource take the place of the stored one
add_resource_to_list_Replacing(resourcedict_list, resource_dict) ==
    IF resource_dict.url \notin {resourcedict_list[i].url : i \in 1..Len(resourcedict_list)}
    THEN Append(resourcedict_list, resource_dict)
    ELSE [i \in 1..Len(resourcedict_list) |->
            IF resourcedict_list[i].url = resource_dict.url
            THEN resource_dict ELSE resourcedict_list[i]]

\* a variant without the url test
add_resource_to_list_Appending(resourcedict_list, resource_dict) ==
    Append(resourcedict_list, resource_dict)

add_resource_to_list(resourcedict_list, resource_dict) ==
    IF resource_dict.url \notin {resourcedict_list[i].url : i \in 1..Len(resourcedict_list)}
    THEN Append(resourcedict_list, resource_dict)
    ELSE resourcedict_list

\* a variant that puts the incoming list behind the stored one as it is
add_resources_to_list_Concatenating(old, new) == old \o new

RECURSIVE add_resources_to_list(_, _)
add_resources_to_list(old, new) ==
    IF new = <<>> THEN old
    ELSE add_resources_to_list(add_resource_to_list(old, Head(new)), Tail(new))

----------------------------------------------------------------------------
(* The catalog behind ckanapi.action, an external service *)

\* package_show(id=n) finds a package
Stored(n) == IF n \in Names THEN catalog[n] ELSE None

\* package_create can be accepted only for a name the catalog does not hold
\* (the name is the catalog's unique key); it can always be rejected
CreateAnswers(d) ==
    IF d.name \in Names /\ catalog[d.name] = None THEN {"ok", "rejected"} ELSE {"rejected"}

\* package_update can be accepted only for a package the catalog holds
UpdateAnswers(p) ==
    IF p.name \in Names /\ catalog[p.name] # None THEN {"ok", "rejected"} ELSE {"rejected"}

----------------------------------------------------------------------------
(* upsert_dataset *)

NoCall == [none |-> TRUE]

\* lines 534-547: the checks on the input, then the locals
EnterUpsert(d, by) ==
    /\ caller' = by
    /\ data_dict' = d
    /\ given' = d
    /\ log' = <<>>
    /\ IF d = None \/ "name" \notin DOMAIN d
       THEN /\ pc' = "done"
            /\ result' = [kind |-> "returned", value |-> None]
            /\ new_resources' = <<>>
       ELSE /\ pc' = "probe"
            /\ new_resources' = d.resources
            /\ UNCHANGED result
    /\ package' = None
    /\ pre' = None
    /\ UNCHANGED catalog

\* a direct call of upsert_dataset (as harvest_arcgis_service makes)
UpsertDataset ==
    /\ UNCHANGED <<parser_vars, mapper_vars>>
    /\ pc = "idle"
    /\ \E d \in Drafts \cup {None}, ow \in BOOLEAN, drop \in BOOLEAN :
        /\ overwrite_metadata' = ow
        /\ drop_existing_resources' = drop
        /\ EnterUpsert(d, "direct")
    /\ remaining' = 0
    /\ UNCHANGED prev

\* lines 550-559: do_update is True when package_show returned, and any
\* exception of package_show, not-found or not, lands in the bare except
\* a variant that never sets do_update
AfterProbe_AlwaysCreate(answer) == "create"

AfterProbe(answer) == IF answer = "found" THEN "update" ELSE "create"

\* lines 550-559: the probe
PackageShow ==
    /\ UNCHANGED <<parser_vars, mapper_vars>>
    /\ pc = "probe"
    /\ LET n == data_dict.name
           answers == (IF Stored(n) = None THEN {"not_found"} ELSE {"found"}) \cup {"timeout"}
       IN  \E a \in answers :
            /\ log' = Append(log, [op |-> "package_show", id |-> n, answer |-> a])
            /\ pre' = Stored(n)
            /\ package' = IF a = "found" THEN Stored(n) ELSE package
            /\ pc' = AfterProbe(a)
    /\ UNCHANGED <<catalog, caller, remaining, overwrite_metadata,
                   drop_existing_resources, data_dict, new_resources, result, given, prev>>

\* a variant with the handler of lines 560-566 in place: a rejected create is
\* swallowed and the draft is returned
PackageCreate_Swallowing ==
    /\ UNCHANGED <<parser_vars, mapper_vars>>
    /\ pc = "create"
    /\ \E a \in CreateAnswers(data_dict) :
        /\ log' = Append(log, [op |-> "package_create", arg |-> data_dict, answer |-> a])
        /\ IF a = "ok"
           THEN catalog' = [catalog EXCEPT ![data_dict.name] = data_dict]
           ELSE UNCHANGED catalog
        /\ package' = data_dict
        /\ result' = [kind |-> "returned", value |-> data_dict]
    /\ pc' = "done"
    /\ UNCHANGED <<caller, remaining, overwrite_metadata,
                   drop_existing_resources, data_dict, new_resources, given, pre, prev>>

\* line 561, then line 608
PackageCreate ==
    /\ UNCHANGED <<parser_vars, mapper_vars>>
    /\ pc = "create"
    /\ \E a \in CreateAnswers(data_dict) :
        /\ log' = Append(log, [op |-> "package_create", arg |-> data_dict, answer |-> a])
        /\ IF a = "ok"
           THEN /\ catalog' = [catalog EXCEPT ![data_dict.name] = data_dict]
                /\ package' = data_dict
                /\ result' = [kind |-> "returned", value |-> data_dict]
           ELSE /\ result' = [kind |-> "raised", value |-> None]
                /\ UNCHANGED <<catalog, package>>
    /\ pc' = "done"
    /\ UNCHANGED <<caller, remaining, overwrite_metadata,
                   drop_existing_resources, data_dict, new_resources, given, pre, prev>>

\* a variant that always discards the stored resources
Resources_NewOnly(old_resources, new, drop) == new

\* a variant that never discards the stored resources
Resources_AlwaysMerge(old_resources, new, drop) == add_resources_to_list(old_resources, new)

\* lines 578-583: the resource list to write
Resources(old_resources, new, drop) ==
    IF drop THEN new ELSE add_resources_to_list(old_resources, new)

\* a variant that always writes the draft's metadata
Pkg_AlwaysNew(new_package, old_package, resources, overwrite) ==
    [new_package EXCEPT !.resources = resources]

\* lines 589-597: the dict to write; the resource list is attached to it
Pkg(new_package, old_package, resources, overwrite) ==
    [(IF overwrite THEN new_package ELSE old_package) EXCEPT !.resources = resources]

\* a variant that writes a copy of the draft: the draft itself is never touched
PackageUpdate_CopyingDraft ==
    /\ UNCHANGED <<parser_vars, mapper_vars>>
    /\ pc = "update"
    /\ LET resources == Resources(package.resources, new_resources, drop_existing_resources)
           pkg == Pkg(data_dict, package, resources, overwrite_metadata)
       IN  \E a \in UpdateAnswers(pkg) :
            /\ log' = Append(log, [op |-> "package_update", arg |-> pkg, answer |-> a])
            /\ IF a = "ok"
               THEN /\ catalog' = [catalog EXCEPT ![pkg.name] = pkg]
                    /\ package' = pkg
                    /\ result' = [kind |-> "returned", value |-> pkg]
               ELSE /\ result' = [kind |-> "raised", value |-> None]
                    /\ UNCHANGED <<catalog, package>>
    /\ pc' = "done"
    /\ UNCHANGED <<caller, remaining, overwrite_metadata, drop_existing_resources,
                   data_dict, new_resources, given, pre, prev>>

\* lines 569-608
PackageUpdate ==
    /\ UNCHANGED <<parser_vars, mapper_vars>>
    /\ pc = "update"
    /\ LET resources == Resources(package.resources, new_resources, drop_existing_resources)
           pkg == Pkg(data_dict, package, resources, overwrite_metadata)
       IN  \E a \in UpdateAnswers(pkg) :
            \* pkg is new_package, that is data_dict itself, when overwriting
            /\ data_dict' = IF overwrite_metadata THEN pkg ELSE data_dict
            /\ log' = Append(log, [op |-> "package_update", arg |-> pkg, answer |-> a])
            /\ IF a = "ok"
               THEN /\ catalog' = [catalog EXCEPT ![pkg.name] = pkg]
                    /\ package' = pkg
                    /\ result' = [kind |-> "returned", value |-> pkg]
               ELSE /\ result' = [kind |-> "raised", value |-> None]
                    /\ package' = IF overwrite_metadata /\ drop_existing_resources
                                  THEN package ELSE [package EXCEPT !.resources = resources]
                    /\ UNCHANGED catalog
    /\ pc' = "done"
    /\ UNCHANGED <<caller, remaining, overwrite_metadata,
                   drop_existing_resources, new_resources, given, pre, prev>>

\* what the finished call leaves for the history
Summary ==
    IF log = <<>> THEN prev
    ELSE IF /\ result.kind = "returned"
            /\ ~drop_existing_resources
            /\ pre = None \/ NoDuplicateUrls(pre.resources)
            /\ NoDuplicateUrls(new_resources)
         THEN [name |-> data_dict.name, new |-> new_resources]
         ELSE NoCall

\* upsert_dataset is over: its locals are gone, the caller goes on
Leave ==
    /\ data_dict' = None
    /\ given' = None
    /\ new_resources' = <<>>
    /\ package' = None
    /\ log' = <<>>
    /\ pre' = None
    /\ prev' = Summary

\* the direct caller has its answer, or the exception
Return ==
    /\ UNCHANGED <<parser_vars, mapper_vars>>
    /\ pc = "done"
    /\ caller = "direct"
    /\ pc' = "idle"
    /\ Leave
    /\ result' = [kind |-> result.kind, value |-> None]
    /\ overwrite_metadata' = TRUE
    /\ drop_existing_resources' = TRUE
    /\ UNCHANGED <<catalog, caller, remaining>>

----------------------------------------------------------------------------
(* upsert_datasets *)

\* lines 807-822: the call
UpsertDatasets ==
    /\ UNCHANGED <<parser_vars, mapper_vars>>
    /\ pc = "idle"
    /\ \E k \in 0..MaxBatch, ow \in BOOLEAN, drop \in BOOLEAN :
        /\ remaining' = k
        /\ overwrite_metadata' = ow
        /\ drop_existing_resources' = drop
    /\ pc' = "iter"
    /\ caller' = "batch"
    /\ UNCHANGED <<catalog, data_dict, new_resources, package, log, result, given, pre, prev>>

\* lines 828-830: the comprehension drops a dataset that is None
SkipNone ==
    /\ UNCHANGED <<parser_vars, mapper_vars>>
    /\ pc = "iter"
    /\ remaining > 0
    /\ remaining' = remaining - 1
    /\ UNCHANGED <<catalog, pc, caller, overwrite_metadata,
                   drop_existing_resources, data_dict, new_resources, package,
                   log, result, given, pre, prev>>

\* lines 823-830: the comprehension calls upsert_dataset on the next dataset
NextDataset ==
    /\ UNCHANGED <<parser_vars, mapper_vars>>
    /\ pc = "iter"
    /\ remaining > 0
    /\ remaining' = remaining - 1
    /\ \E d \in Drafts : EnterUpsert(d, "batch")
    /\ UNCHANGED <<overwrite_metadata, drop_existing_resources, prev>>

\* the comprehension takes what upsert_dataset returned
Collect ==
    /\ UNCHANGED <<parser_vars, mapper_vars>>
    /\ pc = "done"
    /\ caller = "batch"
    /\ result.kind = "returned"
    /\ pc' = "iter"
    /\ Leave
    /\ result' = [kind |-> "returned", value |-> None]
    /\ UNCHANGED <<catalog, caller, remaining, overwrite_metadata,
                   drop_existing_resources>>

\* an exception of upsert_dataset leaves the comprehension and upsert_datasets
Propagate ==
    /\ UNCHANGED <<parser_vars, mapper_vars>>
    /\ pc = "done"
    /\ caller = "batch"
    /\ result.kind = "raised"
    /\ pc' = "idle"
    /\ Leave
    /\ overwrite_metadata' = TRUE
    /\ drop_existing_resources' = TRUE
    /\ UNCHANGED <<catalog, caller, remaining, result>>

\* lines 831-832
ReturnPackages ==
    /\ UNCHANGED <<parser_vars, mapper_vars>>
    /\ pc = "iter"
    /\ remaining = 0
    /\ pc' = "idle"
    /\ result' = [kind |-> "returned", value |-> None]
    /\ overwrite_metadata' = TRUE
    /\ drop_existing_resources' = TRUE
    /\ UNCHANGED <<catalog, caller, remaining, data_dict, new_resources, package,
                   log, given, pre, prev>>

----------------------------------------------------------------------------
(* Strings are sequences of one-character strings, so that the parser's     *)
(* regular expression, split and date conversion work on characters.        *)

Whitespace == {" ", "\t"}
Uppercase == <<"A", "B", "C", "D", "E", "F", "G", "H", "I", "J", "K", "L", "M",
               "N", "O", "P", "Q", "R", "S", "T", "U", "V", "W", "X", "Y", "Z">>
Lowercase == <<"a", "b", "c", "d", "e", "f", "g", "h", "i", "j", "k", "l", "m",
               "n", "o", "p", "q", "r", "s", "t", "u", "v", "w", "x", "y", "z">>
Digits == <<"0", "1", "2", "3", "4", "5", "6", "7", "8", "9">>

IsLower(c) == \E i \in 1..Len(Lowercase) : Lowercase[i] = c
IsDigit(c) == \E i \in 1..Len(Digits) : Digits[i] = c
DigitValue(c) == (CHOOSE i \in 1..Len(Digits) : Digits[i] = c) - 1

\* str.lower()
LowerChar(c) ==
    IF \E i \in 1..Len(Uppercase) : Uppercase[i] = c
    THEN Lowercase[CHOOSE i \in 1..Len(Uppercase) : Uppercase[i] = c]
    ELSE c
Lower(str) == [i \in 1..Len(str) |-> LowerChar(str[i])]

\* str.replace(c, "")
Without(str, c) == SelectSeq(str, LAMBDA x : x # c)

StartsWith(str, c) == Len(str) > 0 /\ str[1] = c
EndsWith(str, c) == Len(str) > 0 /\ str[Len(str)] = c

\* str.split(): the maximal runs of non-whitespace characters
RECURSIVE SplitFrom(_, _, _)
SplitFrom(str, i, word) ==
    IF i > Len(str) THEN (IF word = <<>> THEN <<>> ELSE <<word>>)
    ELSE IF str[i] \in Whitespace
         THEN (IF word = <<>> THEN <<>> ELSE <<word>>) \o SplitFrom(str, i + 1, <<>>)
         ELSE SplitFrom(str, i + 1, Append(word, str[i]))
Split(str) == SplitFrom(str, 1, <<>>)

\* " ".join(words)
RECURSIVE Join(_)
Join(words) ==
    IF words = <<>> THEN <<>>
    ELSE IF Len(words) = 1 THEN words[1]
    ELSE words[1] \o <<" ">> \o Join(Tail(words))

\* the pieces of str between the occurrences of the separator c
RECURSIVE FieldsFrom(_, _, _, _)
FieldsFrom(str, c, i, field) ==
    IF i > Len(str) THEN <<field>>
    ELSE IF str[i] = c THEN <<field>> \o FieldsFrom(str, c, i + 1, <<>>)
    ELSE FieldsFrom(str, c, i + 1, Append(field, str[i]))
Fields(str, c) == FieldsFrom(str, c, 1, <<>>)

RECURSIVE Number(_)
Number(digits) ==
    IF digits = <<>> THEN 0
    ELSE 10 * Number(SubSeq(digits, 1, Len(digits) - 1)) + DigitValue(digits[Len(digits)])

AllDigits(str) == \A i \in 1..Len(str) : IsDigit(str[i])

----------------------------------------------------------------------------
(* datetime.strptime(d, "%d-%m-%Y %H:%M:%S").strftime("%Y-%m-%dT%H:%M:%S")  *)

ValueError == [error |-> "ValueError"]

IsLeap(y) == (y % 4 = 0 /\ y % 100 # 0) \/ y % 400 = 0
DaysIn(m, y) ==
    IF m = 2 THEN (IF IsLeap(y) THEN 29 ELSE 28)
    ELSE IF m \in {4, 6, 9, 11} THEN 30 ELSE 31

\* one or two digits, as the directives %d %m %H %M %S take them
OneOrTwoDigits(str) == Len(str) \in {1, 2} /\ AllDigits(str)

\* the date and time of d, or ValueError
strptime(d) ==
    LET halves == Fields(d, " ")
    IN  IF Len(halves) # 2 THEN ValueError
        ELSE LET date == Fields(halves[1], "-")
                 time == Fields(halves[2], ":")
             IN  IF \/ Len(date) # 3 \/ Len(time) # 3
                    \/ ~OneOrTwoDigits(date[1]) \/ ~OneOrTwoDigits(date[2])
                    \/ Len(date[3]) # 4 \/ ~AllDigits(date[3])
                    \/ \E i \in 1..3 : ~OneOrTwoDigits(time[i])
                 THEN ValueError
                 ELSE LET dd == Number(date[1])
                          mm == Number(date[2])
                          yy == Number(date[3])
                          HH == Number(time[1])
                          MM == Number(time[2])
                          SS == Number(time[3])
                      IN  IF /\ mm \in 1..12
                             /\ yy >= 1
                             /\ dd \in 1..DaysIn(mm, yy)
                             /\ HH \in 0..23
                             /\ MM \in 0..59
                             /\ SS \in 0..59
                          THEN [year |-> yy, month |-> mm, day |-> dd,
                                hour |-> HH, minute |-> MM, second |-> SS]
                          ELSE ValueError

Digit(v) == Digits[v + 1]
Pad2(v) == <<Digit(v \div 10), Digit(v % 10)>>
Pad4(v) == <<Digit(v \div 1000), Digit((v \div 100) % 10), Digit((v \div 10) % 10), Digit(v % 10)>>

\* "%Y-%m-%dT%H:%M:%S"; Python 2's strftime refuses a year before 1900
strftime(t) ==
    IF t.year < 1900 THEN ValueError
    ELSE Pad4(t.year) \o <<"-">> \o Pad2(t.month) \o <<"-">> \o Pad2(t.day) \o <<"T">>
         \o Pad2(t.hour) \o <<":">> \o Pad2(t.minute) \o <<":">> \o Pad2(t.second)

----------------------------------------------------------------------------
(* parse_name *)

\* line 130: re.sub(r"[a-z]\(", u" (", text); the match is the lowercase
\* letter and the parenthesis, and both are replaced
RECURSIVE SubFrom(_, _)
SubFrom(text, i) ==
    IF i > Len(text) THEN <<>>
    ELSE IF i < Len(text) /\ IsLower(text[i]) /\ text[i + 1] = "("
         THEN <<" ", "(">> \o SubFrom(text, i + 2)
         ELSE <<text[i]>> \o SubFrom(text, i + 1)
Normalise(text) == SubFrom(text, 1)

\* line 138
LastStartsWithParenthesis(p) == StartsWith(p[Len(p)], "(")
\* a variant that looks at the wrong end of the last word
LastEndsWithParenthesis_WrongEnd(p) == StartsWith(p[Len(p)], "(")

\* line 163
LastEndsWithParenthesis(p) == EndsWith(p[Len(p)], ")")

\* a variant that takes every title to end with a date
ChopOff_AlwaysThree(p) == 3

\* lines 124 and 141
ChopOff(p) == IF LastStartsWithParenthesis(p) THEN 1 ELSE 3

\* line 146
DateText(p) == Without(p[Len(p) - 1], "(") \o <<" ">> \o Without(p[Len(p)], ")")

\* lines 145-161: the date, from the last two words or from the clock
DateOf(p, now) ==
    IF LastStartsWithParenthesis(p) THEN now
    ELSE LET t == strptime(DateText(p))
         IN  IF t = ValueError THEN now
             ELSE IF strftime(t) = ValueError THEN now ELSE strftime(t)

\* line 164
Slug(word) == Lower(Without(Without(word, "("), ")"))

IndexError == [kind |-> "raised", error |-> "IndexError"]

\* lines 120-174, with debug=False; text is ASCII, which encode leaves alone
parse_name(text, now) ==
    LET p == Split(Normalise(text))
    IN  IF Len(p) = 0 THEN IndexError                                   \* p[-1], line 138
        ELSE IF ~LastStartsWithParenthesis(p) /\ Len(p) < 2 THEN IndexError   \* p[-2], line 146
        ELSE IF LastEndsWithParenthesis(p)
             THEN IF Len(p) < ChopOff(p) THEN IndexError                \* p[-chop_off], line 164
                  ELSE [kind |-> "returned",
                        t |-> Join(SubSeq(p, 1, Len(p) - ChopOff(p))),
                        n |-> Slug(p[Len(p) - ChopOff(p) + 1]),
                        dt |-> DateOf(p, now)]
             ELSE [kind |-> "returned",
                   t |-> Join(p),
                   n |-> NoneString,
                   dt |-> DateOf(p, now)]

----------------------------------------------------------------------------
(* Layer titles: words of the kinds the services deliver, spaced by single  *)
(* blanks or padded with more                                               *)

WordPlain == <<"A", "b">>
WordParenthesised == <<"(", "P", "t", ")">>
WordGlued == <<"R", "s", "(", "I", "d", ")">>
WordDate == <<"(", "0", "3", "-", "1", "1", "-", "2", "0", "0", "8">>
WordTime == <<"1", "5", ":", "0", "7", ":", "4", "4", ")">>

Words == {WordPlain, WordParenthesised, WordGlued, WordDate, WordTime}

Spacings == {"single", "padded"}

RECURSIVE Padded(_)
Padded(words) ==
    IF words = <<>> THEN <<" ">>
    ELSE <<" ", " ">> \o Head(words) \o Padded(Tail(words))

Render(words, sp) == IF sp = "single" THEN Join(words) ELSE Padded(words)

\* what datetime.now().strftime(...) may give
Clock == {<<"2", "0", "1", "5", "-", "1", "0", "-", "0", "5", "T",
            "1", "3", ":", "4", "1", ":", "4", "8">>,
          <<"2", "0", "1", "5", "-", "1", "0", "-", "0", "8", "T",
            "1", "7", ":", "1", "4", ":", "4", "2">>}

Pending == [kind |-> "pending"]

ParseName ==
    /\ parsed = Pending
    /\ \E now \in Clock : parsed' = parse_name(layer_title, now)
    /\ UNCHANGED <<title_words, spacing, layer_title>>
    /\ UNCHANGED <<upsert_vars, mapper_vars>>

----------------------------------------------------------------------------
(* wxs_to_dict and gs28_to_ckan: from a layer to the draft of a package *)

\* most words of the title of a layer handed to a mapper
MaxLayerWords == 3

\* key in dict, a dict being a set of entries
HasKey(dict, key) == \E e \in dict : e.key = key

\* dict.get(key, None)
DictGet(dict, key) ==
    IF HasKey(dict, key) THEN (CHOOSE e \in dict : e.key = key).value ELSE None

\* slugify(text): lower case, every run of other characters than letters and
\* digits becomes one hyphen, no hyphen at either end
Hyphenate(str) ==
    [i \in 1..Len(str) |->
        IF IsLower(LowerChar(str[i])) \/ IsDigit(str[i]) THEN LowerChar(str[i]) ELSE "-"]

RECURSIVE Squeeze(_)
Squeeze(str) ==
    IF Len(str) < 2 THEN str
    ELSE IF str[1] = "-" /\ str[2] = "-" THEN Squeeze(Tail(str))
    ELSE <<str[1]>> \o Squeeze(Tail(str))

StripHyphens(str) ==
    LET t == IF StartsWith(str, "-") THEN Tail(str) ELSE str
    IN  IF EndsWith(t, "-") THEN SubSeq(t, 1, Len(t) - 1) ELSE t

slugify(str) == StripHyphens(Squeeze(Hyphenate(str)))

\* organisations as ckanapi gives them: with id, title and the extras Contact
\* and Jurisdiction; without any of the three; with extras that lack Contact
OrgFull ==
    [id |-> "org-pt", title |-> "Org Pt",
     extras |-> <<[key |-> "Contact", value |-> "pt@wa"],
                  [key |-> "Jurisdiction", value |-> "WA"]>>]
OrgBare == [name |-> "pt"]
OrgNoContact ==
    [id |-> "org-pt", title |-> "Org Pt",
     extras |-> <<[key |-> "Jurisdiction", value |-> "WA"]>>]

KeyPt == <<"p", "t">>
KeyZz == <<"z", "z">>

\* the org_dict handed to wxs_to_dict
OrgDicts ==
    {{}} \cup {{[key |-> KeyPt, value |-> o]} : o \in {OrgFull, OrgBare, OrgNoContact}}
         \cup {{[key |-> KeyZz, value |-> OrgFull]}}

\* the organisations the catalog holds, for organization_show
CkanOrganizations == {{}, {[key |-> KeyPt, value |-> OrgFull]}}

\* the pdf_dict handed to wxs_to_dict: the data dictionaries by dataset name
PdfDicts == {{}, {[key |-> <<"p", "t", "-", "1">>, value |-> "a"]}}

\* fallback_org_id: the default None, or the id of an organisation
FallbackOrgIds == {NoneName, "org-fallback"}

\* the url of the service, wxs_url
WxsUrl == "b"

\* line 317
owner_org_id_NoFallback(owner_org_dict, fallback_org_id) ==
    IF owner_org_dict # None /\ "id" \in DOMAIN owner_org_dict
    THEN owner_org_dict.id ELSE NoneName

owner_org_id(owner_org_dict, fallback_org_id) ==
    IF owner_org_dict # None /\ "id" \in DOMAIN owner_org_dict
    THEN owner_org_dict.id ELSE fallback_org_id

\* line 318
owner_org_title(owner_org_dict) ==
    IF owner_org_dict # None /\ "title" \in DOMAIN owner_org_dict
    THEN owner_org_dict.title ELSE ""

\* line 319; "" stands for the empty list as well, both are false at line 320
extras(owner_org_dict) ==
    IF owner_org_dict # None /\ "extras" \in DOMAIN owner_org_dict
    THEN owner_org_dict.extras ELSE <<>>

\* lines 320-325: the value of the first extra named Contact; the list
\* comprehension is empty without one, and [0] raises
HasExtra(xs, k) == \E i \in 1..Len(xs) : xs[i].key = k
ExtraValue(xs, k) ==
    xs[CHOOSE i \in 1..Len(xs) : xs[i].key = k /\ \A j \in 1..(i - 1) : xs[j].key # k].value

\* lines 362-386: the data dictionary if pdf_dict has one, then the service
resource_list(pdf_dict, ds_name) ==
    (IF HasKey(pdf_dict, ds_name) THEN <<Resource(DictGet(pdf_dict, ds_name), "PDF")>> ELSE <<>>)
        \o <<Resource(WxsUrl, "wms")>>

\* a variant of wxs_to_dict that names the record after the identifier
wxs_to_dict_NameFromIdentifier(title, org_dict, pdf_dict, fallback_org_id, now) ==
    LET name == parse_name(title, now)
    IN  IF name.kind = "raised" THEN name
        ELSE IF name.n = NoneString THEN [kind |-> "returned", value |-> None]
        ELSE LET ds_title == name.t
                 ds_name == name.n
                 org_name == Fields(ds_name, "-")[1]
                 owner_org_dict == DictGet(org_dict, org_name)
                 xs == extras(owner_org_dict)
             IN  IF xs # <<>> /\ (~HasExtra(xs, "Contact") \/ ~HasExtra(xs, "Jurisdiction"))
                 THEN IndexError
                 ELSE [kind |-> "returned",
                       value |->
                         [name |-> slugify(ds_name),
                          title |-> ds_title,
                          owner_org |-> owner_org_id(owner_org_dict, fallback_org_id),
                          author |-> owner_org_title(owner_org_dict),
                          author_email |-> IF xs # <<>> THEN ExtraValue(xs, "Contact") ELSE "",
                          data_homepage |-> IF HasKey(pdf_dict, ds_name)
                                            THEN DictGet(pdf_dict, ds_name) ELSE "",
                          published_on |-> name.dt,
                          last_updated_on |-> name.dt,
                          resources |-> resource_list(pdf_dict, ds_name)]]

\* lines 273-391, with res_format="WMS" and a layer that has a bounding box;
\* the theme, group and tag fields do not bear on the fields kept here
wxs_to_dict(title, org_dict, pdf_dict, fallback_org_id, now) ==
    LET name == parse_name(title, now)
    IN  IF name.kind = "raised" THEN name
        ELSE IF name.n = NoneString THEN [kind |-> "returned", value |-> None]
        ELSE LET ds_title == name.t
                 ds_name == name.n
                 org_name == Fields(ds_name, "-")[1]
                 owner_org_dict == DictGet(org_dict, org_name)
                 xs == extras(owner_org_dict)
             IN  IF xs # <<>> /\ (~HasExtra(xs, "Contact") \/ ~HasExtra(xs, "Jurisdiction"))
                 THEN IndexError
                 ELSE [kind |-> "returned",
                       value |->
                         [name |-> slugify(ds_title),
                          title |-> ds_title,
                          owner_org |-> owner_org_id(owner_org_dict, fallback_org_id),
                          author |-> owner_org_title(owner_org_dict),
                          author_email |-> IF xs # <<>> THEN ExtraValue(xs, "Contact") ELSE "",
                          data_homepage |-> IF HasKey(pdf_dict, ds_name)
                                            THEN DictGet(pdf_dict, ds_name) ELSE "",
                          published_on |-> name.dt,
                          last_updated_on |-> name.dt,
                          resources |-> resource_list(pdf_dict, ds_name)]]

NoMapperCall == [fn |-> "none"]

\* one call of wxs_to_dict, as get_layer_dict makes for each layer
WxsToDict ==
    /\ layer_dict = Pending
    /\ \E org_dict \in OrgDicts, pdf_dict \in PdfDicts,
          fallback_org_id \in FallbackOrgIds, now \in Clock :
        /\ mapper_call' = [fn |-> "wxs_to_dict", org_dict |-> org_dict,
                           pdf_dict |-> pdf_dict, fallback_org_id |-> fallback_org_id,
                           now |-> now]
        /\ layer_dict' = wxs_to_dict(layer_title, org_dict, pdf_dict, fallback_org_id, now)
    /\ UNCHANGED <<upsert_vars, parser_vars, layers, datasets>>

\* the names of the layers of a GeoServer: workspace, colon, layer
LayerNames == {<<"p", "t", ":", "x">>, <<"z", "z", ":", "x">>}

NameError == [kind |-> "raised", error |-> "NameError"]

\* organization_show(id=org_name): the organisation, or an exception
OrganizationShowAnswers(organizations, org_name) ==
    (IF HasKey(organizations, org_name) THEN {"found"} ELSE {"not_found"})
        \cup {"timeout"}

\* lines 402-449, with res_format="WMS" and a layer that has a parent and a
\* bounding box. The except clause at line 408 names NotFound, which the
\* module never imports or defines: once organization_show has raised, looking
\* the name up raises NameError, whatever the exception was
gs28_to_ckan(name, title, organizations, answer, fallback_org_id) ==
    LET org_name == Fields(name, ":")[1]
    IN  IF answer # "found" THEN NameError
        ELSE [kind |-> "returned",
              value |->
                [name |-> slugify(name),
                 title |-> title,
                 owner_org |-> DictGet(organizations, org_name).id,
                 author |-> "parent",
                 author_email |-> "",
                 data_homepage |-> "",
                 resources |-> <<Resource(WxsUrl, "wms")>>]]

\* one call of gs28_to_ckan, as get_layer_dict_gs28 makes for each layer
Gs28ToCkan ==
    /\ layer_dict = Pending
    /\ \E name \in LayerNames, organizations \in CkanOrganizations,
          fallback_org_id \in FallbackOrgIds :
        \E answer \in OrganizationShowAnswers(organizations, Fields(name, ":")[1]) :
            /\ mapper_call' = [fn |-> "gs28_to_ckan", layer_name |-> name,
                               organizations |-> organizations, answer |-> answer,
                               fallback_org_id |-> fallback_org_id]
            /\ layer_dict' = gs28_to_ckan(name, layer_title, organizations, answer,
                                          fallback_org_id)
    /\ UNCHANGED <<upsert_vars, parser_vars, layers, datasets>>

\* the words of the titles handed to the mappers
WordKeyed == <<"(", "P", "t", "-", "1", ")">>
LayerWords == {WordPlain, WordParenthesised, WordKeyed, WordDate, WordTime}

----------------------------------------------------------------------------
(* A harvest: get_layer_dict maps the layers of a service with wxs_to_dict,  *)
(* upsert_datasets writes the list it gave to the catalog                    *)

\* the titles of the layers of the service: one name with different
\* identifiers, with and without a date, and without an identifier
HarvestTitles ==
    {Join(<<WordPlain, WordParenthesised>>),
     Join(<<WordPlain, WordKeyed>>),
     Join(<<WordPlain, WordKeyed, WordDate, WordTime>>),
     Join(<<WordPlain, WordPlain>>)}

\* lines 801-804: the id of the fallback organisation from organization_show,
\* then wxs_to_dict on every layer; an exception of either ends the call
GetLayerDict ==
    /\ pc = "idle"
    /\ datasets = Pending
    /\ \E org_dict \in OrgDicts, pdf_dict \in PdfDicts, now \in Clock,
          answer \in {"found", "not_found"} :
        LET foid == "org-fallback"
            dicts == [i \in 1..Len(layers) |->
                        wxs_to_dict(layers[i], org_dict, pdf_dict, foid, now)]
        IN  /\ mapper_call' = [fn |-> "get_layer_dict", org_dict |-> org_dict,
                               pdf_dict |-> pdf_dict, fallback_org_id |-> foid,
                               now |-> now]
            /\ datasets' =
                 IF answer # "found" \/ \E i \in 1..Len(layers) : dicts[i].kind = "raised"
                 THEN [kind |-> "raised"]
                 ELSE [kind |-> "returned",
                       value |-> [i \in 1..Len(layers) |-> dicts[i].value]]
    /\ UNCHANGED <<upsert_vars, parser_vars, layer_dict, layers>>

\* the names of the catalog's records are atoms in this model: the slug each
\* stands for, and the atom of a slug
SlugOf == [n \in Names |-> <<"a", "b">>]
CatalogName(slug) ==
    IF \E n \in Names : SlugOf[n] = slug
    THEN CHOOSE n \in Names : SlugOf[n] = slug
    ELSE "unlisted"

\* the dict of wxs_to_dict as upsert_dataset takes it
Draft(dict) == [dict EXCEPT !.name = CatalogName(dict.name)]

\* lines 807-822: upsert_datasets on the list get_layer_dict gave
UpsertHarvested ==
    /\ UNCHANGED <<parser_vars, mapper_vars>>
    /\ pc = "idle"
    /\ datasets.kind = "returned"
    /\ \E ow \in BOOLEAN, drop \in BOOLEAN :
        /\ overwrite_metadata' = ow
        /\ drop_existing_resources' = drop
    /\ remaining' = Len(datasets.value)
    /\ pc' = "iter"
    /\ caller' = "batch"
    /\ UNCHANGED <<catalog, data_dict, new_resources, package, log, result, given, pre, prev>>

\* the dataset the comprehension has reached
Dataset == datasets.value[Len(datasets.value) - remaining + 1]

\* lines 828-830: a layer for which wxs_to_dict gave None is passed over
SkipHarvestedNone ==
    /\ UNCHANGED <<parser_vars, mapper_vars>>
    /\ pc = "iter"
    /\ datasets.kind = "returned"
    /\ remaining > 0
    /\ Dataset = None
    /\ remaining' = remaining - 1
    /\ UNCHANGED <<catalog, pc, caller, overwrite_metadata,
                   drop_existing_resources, data_dict, new_resources, package,
                   log, result, given, pre, prev>>

\* lines 823-830: upsert_dataset on the next dataset
NextHarvested ==
    /\ UNCHANGED <<parser_vars, mapper_vars>>
    /\ pc = "iter"
    /\ datasets.kind = "returned"
    /\ remaining > 0
    /\ Dataset # None
    /\ remaining' = remaining - 1
    /\ EnterUpsert(Draft(Dataset), "batch")
    /\ UNCHANGED <<overwrite_metadata, drop_existing_resources, prev>>

----------------------------------------------------------------------------
(* The catalog before the harvest: each name free, or curated by hand *)

UpsertIdle ==
    /\ pc = "idle"
    /\ caller = "direct"
    /\ remaining = 0
    /\ overwrite_metadata = TRUE
    /\ drop_existing_resources = TRUE
    /\ data_dict = None
    /\ given = None
    /\ new_resources = <<>>
    /\ package = None
    /\ log = <<>>
    /\ result = [kind |-> "returned", value |-> None]
    /\ pre = None
    /\ prev = NoCall

ParserIdle ==
    /\ title_words = <<>>
    /\ spacing = "single"
    /\ layer_title = <<>>
    /\ parsed = Pending

MapperIdle ==
    /\ mapper_call = NoMapperCall
    /\ layer_dict = Pending
    /\ layers = <<>>
    /\ datasets = Pending

Init ==
    /\ catalog \in [Names -> {None} \cup {CuratedPackage(n) : n \in Names}]
    /\ \A n \in Names : catalog[n] # None => catalog[n].name = n
    /\ UpsertIdle
    /\ ParserIdle
    /\ MapperIdle

Next ==
    \/ UpsertDataset
    \/ PackageShow
    \/ PackageCreate
    \/ PackageUpdate
    \/ Return
    \/ UpsertDatasets
    \/ SkipNone
    \/ NextDataset
    \/ Collect
    \/ Propagate
    \/ ReturnPackages

Spec == Init /\ [][Next]_vars

\* parse_name on every title of up to MaxWords words
ParseInit ==
    /\ catalog = [n \in Names |-> None]
    /\ UpsertIdle
    /\ title_words \in SeqsUpTo(Words, MaxWords)
    /\ spacing \in Spacings
    /\ layer_title = Render(title_words, spacing)
    /\ parsed = Pending
    /\ MapperIdle

ParseNext == ParseName

SpecParse == ParseInit /\ [][ParseNext]_vars

\* most words of a title whose date may come without parentheses
MaxBareWords == 3

\* a date and a time as the services write them, without the parentheses
WordDateBare == <<"0", "3", "-", "1", "1", "-", "2", "0", "0", "8">>
WordTimeBare == <<"1", "5", ":", "0", "7", ":", "4", "4">>
BareWords == Words \cup {WordDateBare, WordTimeBare}

\* parse_name on every title of up to MaxBareWords of these words
ParseBareInit ==
    /\ catalog = [n \in Names |-> None]
    /\ UpsertIdle
    /\ title_words \in SeqsUpTo(BareWords, MaxBareWords)
    /\ spacing \in Spacings
    /\ layer_title = Render(title_words, spacing)
    /\ parsed = Pending
    /\ MapperIdle

SpecParseBare == ParseBareInit /\ [][ParseNext]_vars

\* the mappers on every layer title of up to MaxLayerWords words, single blanks
MapInit ==
    /\ catalog = [n \in Names |-> None]
    /\ UpsertIdle
    /\ title_words \in SeqsUpTo(LayerWords, MaxLayerWords)
    /\ spacing = "single"
    /\ layer_title = Render(title_words, spacing)
    /\ parsed = Pending
    /\ MapperIdle

MapNext ==
    \/ WxsToDict
    \/ Gs28ToCkan

SpecMap == MapInit /\ [][MapNext]_vars

\* a harvest of up to MaxBatch layers into a catalog that holds none of them
HarvestInit ==
    /\ catalog = [n \in Names |-> None]
    /\ UpsertIdle
    /\ ParserIdle
    /\ mapper_call = NoMapperCall
    /\ layer_dict = Pending
    /\ layers \in SeqsUpTo(HarvestTitles, MaxBatch)
    /\ datasets = Pending

HarvestNext ==
    \/ GetLayerDict
    \/ UpsertHarvested
    \/ SkipHarvestedNone
    \/ NextHarvested
    \/ PackageShow
    \/ PackageCreate
    \/ PackageUpdate
    \/ Collect
    \/ Propagate
    \/ ReturnPackages

SpecHarvest == HarvestInit /\ [][HarvestNext]_vars

----------------------------------------------------------------------------
(* Properties of upsert_dataset and upsert_datasets, checked under Spec *)

\* the running upsert_dataset has written (or tried to write) an update
Updated == pc = "done" /\ Len(log) = 2 /\ log[2].op = "package_update"

\* C1: for a record that has a name, upsert_dataset probes the catalog by that
\* name before it writes; after not-found it issues one create carrying the
\* record as given and no update, whatever the flags; after found it issues one
\* update and no create; no write precedes the probe and create and update are
\* never both issued.
C1_ProbeThenOneWrite ==
    /\ Len(log) <= 2
    /\ Len(log) >= 1 => log[1].op = "package_show" /\ log[1].id = given.name
    /\ Len(log) = 2 => log[2].op \in {"package_create", "package_update"}
    /\ Len(log) = 2 /\ log[1].answer = "not_found"
         => log[2].op = "package_create" /\ log[2].arg = given
    /\ Len(log) = 2 /\ log[1].answer = "found" => log[2].op = "package_update"
    /\ pc = "done" /\ Len(log) >= 1 => Len(log) = 2

C1_Witness ==
    /\ pc = "done"
    /\ Len(log) = 2
    /\ log[1].answer = "not_found"
    /\ log[2].op = "package_create"
    /\ log[2].answer = "ok"
    /\ ~overwrite_metadata /\ ~drop_existing_resources

\* C2: a call with drop_existing_resources=False never removes a stored url:
\* every url the catalog stored for the record when the call probed it is still
\* stored; only a call with drop_existing_resources=True can lose one.
C2_UrlsNeverShrink ==
    (pre # None /\ ~drop_existing_resources)
        => /\ Stored(given.name) # None
           /\ Urls(pre.resources) \subseteq Urls(Stored(given.name).resources)

C2_Witness ==
    /\ Updated
    /\ log[2].answer = "ok"
    /\ ~drop_existing_resources
    /\ \E u \in Urls(pre.resources) : u \notin Urls(given.resources)
    /\ Stored(given.name).resources = log[2].arg.resources
    /\ Stored(given.name).resources # pre.resources

\* the places of the incoming list whose resource is appended: its url is not
\* stored and does not occur earlier in the incoming list
NewPlaces(existing, incoming) ==
    {i \in 1..Len(incoming) :
        /\ incoming[i].url \notin Urls(existing)
        /\ \A j \in 1..(i - 1) : incoming[j].url # incoming[i].url}

\* the k-th smallest member of a set of numbers
Nth(S, k) == CHOOSE i \in S : Cardinality({j \in S : j <= i}) = k

\* C3: in merge mode the list written is the stored list, unchanged and in its
\* order, followed by each incoming resource whose url does not occur earlier
\* in the result, in incoming order; on a collision the stored resource stays.
C3_MergeKeepsExistingFirst ==
    (Updated /\ ~drop_existing_resources)
        => LET existing == pre.resources
               incoming == given.resources
               written == log[2].arg.resources
               places == NewPlaces(existing, incoming)
           IN  /\ Len(written) = Len(existing) + Cardinality(places)
               /\ \A i \in 1..Len(existing) : written[i] = existing[i]
               /\ \A k \in 1..Cardinality(places) :
                    written[Len(existing) + k] = incoming[Nth(places, k)]

C3_Witness ==
    /\ Updated
    /\ ~drop_existing_resources
    /\ UrlSeq(pre.resources) = <<"a", "b">>
    /\ UrlSeq(given.resources) = <<"b", "c">>
    /\ UrlSeq(log[2].arg.resources) = <<"a", "b", "c">>
    /\ pre.resources[2].format # given.resources[1].format
    /\ log[2].arg.resources[2] = pre.resources[2]

\* the running call repeats the call before it: same record, same incoming
\* list, both in merge mode, both answered; the first started from a record
\* that was absent or had distinct urls, with a draft of distinct urls
Repeated ==
    /\ pc = "done"
    /\ Len(log) = 2
    /\ result.kind = "returned"
    /\ ~drop_existing_resources
    /\ prev # NoCall
    /\ prev.name = given.name
    /\ prev.new = given.resources

\* C4: merge mode is idempotent: after the second of two such calls the stored
\* list has no duplicate urls and the url sequence (so the length) it had
\* after the first.
C4_MergeIdempotent ==
    Repeated
        => /\ NoDuplicateUrls(Stored(given.name).resources)
           /\ UrlSeq(Stored(given.name).resources) = UrlSeq(pre.resources)

C4_Witness ==
    /\ Repeated
    /\ Len(given.resources) = 2
    /\ log[2].op = "package_update"
    /\ Len(Stored(given.name).resources) > Len(given.resources)

\* C5: when the probe of a named record fails for another reason than
\* not-found, no create and no update is issued; a create is issued only after
\* a not-found answer.
C5_CreateOnlyAfterNotFound ==
    \A i \in 1..Len(log) :
        (given.name \in Names /\ log[i].op \in {"package_create", "package_update"})
            => log[1].answer \in {"not_found", "found"}

\* C6: a rejected write of one record does not keep upsert_datasets from the
\* later records of its list: when it is over, no dataset is left unreached.
C6_FailureIsolated ==
    (pc = "idle" /\ caller = "batch" /\ result.kind = "raised") => remaining = 0

\* C10: the metadata of the update call are the draft's when
\* overwrite_metadata=True and the stored record's when it is False; the
\* resource list attached is the one drop_existing_resources chooses, whatever
\* overwrite_metadata is.
C10_MetadataByFlag ==
    Updated
        => LET arg == log[2].arg
               source == IF overwrite_metadata THEN given ELSE pre
           IN  /\ DOMAIN arg = {"name", "title", "resources"}
               /\ arg.name = source.name
               /\ arg.title = source.title
               /\ drop_existing_resources => arg.resources = given.resources
               /\ ~drop_existing_resources
                    => /\ SubSeq(arg.resources, 1, Len(pre.resources)) = pre.resources
                       /\ Urls(arg.resources)
                            = Urls(pre.resources) \cup Urls(given.resources)

C10_Witness ==
    /\ Updated
    /\ log[2].answer = "ok"
    /\ ~overwrite_metadata
    /\ drop_existing_resources
    /\ given.title # pre.title
    /\ Stored(given.name).title = pre.title
    /\ Stored(given.name).resources = given.resources
    /\ given.resources # pre.resources

\* C11: when the record exists and drop_existing_resources=True, the resource
\* list written is exactly the draft's list, same elements in the same order,
\* and no stored resource is retained; stored [a,b] and incoming [b,c] give
\* [b,c].
C11_DropWritesDraftList ==
    (Updated /\ drop_existing_resources)
        => /\ log[2].arg.resources = given.resources
           /\ log[2].answer = "ok" => Stored(given.name).resources = given.resources

C11_Witness ==
    /\ Updated
    /\ drop_existing_resources
    /\ log[2].answer = "ok"
    /\ UrlSeq(pre.resources) = <<"a", "b">>
    /\ UrlSeq(given.resources) = <<"b", "c">>
    /\ UrlSeq(Stored(given.name).resources) = <<"b", "c">>
    /\ Stored(given.name).resources[1] # pre.resources[2]

\* the record handed over has no name: the key is absent, or its value is None
Nameless(d) == d # None /\ ("name" \notin DOMAIN d \/ d.name = NoneName)

\* C12: a record with no name is rejected before any catalog call, and what
\* the caller receives differs from what it receives for no input at all.
C12_NamelessRejected ==
    /\ (pc \in {"probe", "create", "update", "done"} /\ Nameless(given))
         => /\ log = <<>>
            /\ pc = "done"
            /\ result # [kind |-> "returned", value |-> None]

\* C13: a rejected create or update is propagated to the caller and nothing
\* follows it: an upsert issues at most one write call, a rejected write is
\* not retried, a rejected create is not followed by an update nor a rejected
\* update by a create.
C13_RejectedWriteIsFinal ==
    /\ Cardinality({i \in 1..Len(log) : log[i].op \in {"package_create", "package_update"}}) <= 1
    /\ \A i \in 1..Len(log) :
         (log[i].op \in {"package_create", "package_update"} /\ log[i].answer = "rejected")
            => /\ i = Len(log)
               /\ pc = "done"
               /\ result.kind = "raised"

C13_Witness ==
    /\ pc = "done"
    /\ Len(log) = 2
    /\ log[1].answer = "not_found"
    /\ log[2].op = "package_create"
    /\ log[2].answer = "rejected"
    /\ result.kind = "raised"
    /\ Stored(given.name) = None

\* C19: reconciliation produces no duplicate urls: when the stored list has
\* pairwise distinct urls, the list written in merge mode has pairwise distinct
\* urls for every incoming list, one that repeats a url included (the repeated
\* url is appended at most once).
C19_MergeWritesDistinctUrls ==
    (Updated /\ ~drop_existing_resources /\ NoDuplicateUrls(pre.resources))
        => /\ NoDuplicateUrls(log[2].arg.resources)
           /\ log[2].answer = "ok" => NoDuplicateUrls(Stored(given.name).resources)

C19_Witness ==
    /\ Updated
    /\ ~drop_existing_resources
    /\ log[2].answer = "ok"
    /\ UrlSeq(pre.resources) = <<"a", "b">>
    /\ UrlSeq(given.resources) = <<"c", "c">>
    /\ UrlSeq(Stored(given.name).resources) = <<"a", "b", "c">>

\* C22: upsert_dataset leaves the caller's draft as it was, but for the merge
\* step: on the create path, and on the update path with
\* drop_existing_resources=True or overwrite_metadata=False, every field of
\* the draft, its resource list and the elements of the list included, is
\* what it was before the call; with overwrite_metadata=True and
\* drop_existing_resources=False the draft's resources, and nothing else of
\* it, are replaced by the merged list.
C22_DraftChangedByMergeOnly ==
    pc \in {"probe", "create", "update", "done"}
        => IF Updated /\ overwrite_metadata /\ ~drop_existing_resources
           THEN data_dict = [given EXCEPT !.resources = log[2].arg.resources]
           ELSE data_dict = given

C22_Witness ==
    /\ Updated
    /\ overwrite_metadata
    /\ ~drop_existing_resources
    /\ UrlSeq(given.resources) = <<"b", "c">>
    /\ UrlSeq(data_dict.resources) = <<"a", "b", "c">>
    /\ data_dict.title = given.title
    /\ data_dict.name = given.name

----------------------------------------------------------------------------
(* Properties of parse_name, checked under SpecParse *)

\* C7: parse_name is total: it returns a triple for every input string.
C7_Total == parsed.kind \in {"pending", "returned"}

\* "2008-11-03T15:07:44", the date of WordDate and WordTime
IsoOfWordDate == <<"2", "0", "0", "8", "-", "1", "1", "-", "0", "3", "T",
                   "1", "5", ":", "0", "7", ":", "4", "4">>

\* a title "T (ID) (DD-MM-YYYY HH:MM:SS)": T of one or more words, single blanks
DatedTitle ==
    /\ spacing = "single"
    /\ Len(title_words) >= 4
    /\ SubSeq(title_words, Len(title_words) - 2, Len(title_words))
         = <<WordParenthesised, WordDate, WordTime>>

\* C8: for a title "T (ID) (DD-MM-YYYY HH:MM:SS)" with a valid date parse_name
\* returns exactly (T, lowercase(ID), the date as YYYY-MM-DDTHH:MM:SS).
C8_DatedTitleExact ==
    (DatedTitle /\ parsed # Pending)
        => parsed = [kind |-> "returned",
                     t |-> Join(SubSeq(title_words, 1, Len(title_words) - 3)),
                     n |-> <<"p", "t">>,
                     dt |-> IsoOfWordDate]

\* a word "(X)"
Parenthesised(word) == StartsWith(word, "(") /\ EndsWith(word, ")")

\* the last character of a string that is not whitespace, "" if there is none
LastNonBlank(str) ==
    LET places == {i \in 1..Len(str) : str[i] \notin Whitespace}
    IN  IF places = {} THEN ""
        ELSE str[CHOOSE i \in places : \A j \in places : j <= i]

\* C9, as claimed: for every input with a word "(X)" in any position the
\* identifier returned is not None.
C9_SlugWheneverParenthesised ==
    (parsed.kind = "returned" /\ \E i \in 1..Len(title_words) : Parenthesised(title_words[i]))
        => parsed.n # NoneString

\* C9, amended: the identifier returned is None exactly when the input does
\* not end (whitespace aside) with ")"; a word "(X)" elsewhere does not count.
C9_NoneIffNoClosingParenthesis ==
    parsed.kind = "returned"
        => (parsed.n = NoneString <=> LastNonBlank(layer_title) # ")")

C9_Witness ==
    /\ parsed.kind = "returned"
    /\ \E i \in 1..Len(title_words) : Parenthesised(title_words[i])
    /\ parsed.n = NoneString
    /\ parsed.t = layer_title

\* the title has no parenthesis character
NoParenthesis(str) == \A i \in 1..Len(str) : str[i] \notin {"(", ")"}

\* C14: for every title without a parenthesis character parse_name returns
\* the identifier None and a title equal to the input string, one-word titles
\* and titles with repeated, leading or trailing whitespace included.
C14_PlainTitleUnchanged ==
    (parsed # Pending /\ NoParenthesis(layer_title))
        => /\ parsed.kind = "returned"
           /\ parsed.n = NoneString
           /\ parsed.t = layer_title

\* a title "T (ID)": T of one or more words without parentheses, then "(Pt)"
TitleWithIdOnly ==
    /\ Len(title_words) >= 2
    /\ title_words[Len(title_words)] = WordParenthesised
    /\ \A i \in 1..(Len(title_words) - 1) : NoParenthesis(title_words[i])

\* C15: for a title "T (ID)" whose only parenthesised group is the last word
\* parse_name returns T, the identifier in lower case without its parentheses,
\* and the time of the clock: one word is removed from the title and no date
\* is read from it.
C15_TitleWithIdExact ==
    (TitleWithIdOnly /\ parsed # Pending)
        => /\ parsed.kind = "returned"
           /\ parsed.t = Join(SubSeq(title_words, 1, Len(title_words) - 1))
           /\ parsed.n = <<"p", "t">>
           /\ parsed.dt \in Clock

C15_Witness ==
    /\ TitleWithIdOnly
    /\ Len(title_words) = 3
    /\ spacing = "padded"
    /\ parsed.kind = "returned"
    /\ parsed.t = <<"A", "b", " ", "A", "b">>
    /\ parsed.n = <<"p", "t">>

\* the words parse_name works on
Tokens == Split(Normalise(layer_title))

\* the last word does not start with "(" but ends with ")"
DateShaped(p) ==
    Len(p) >= 1 /\ ~StartsWith(p[Len(p)], "(") /\ EndsWith(p[Len(p)], ")")

\* the last two words do not make a date
NoDateIn(p) ==
    \/ Len(p) < 2
    \/ LET t == strptime(DateText(p))
       IN  IF t = ValueError THEN TRUE ELSE strftime(t) = ValueError

\* C17: when the last word does not start with "(" but ends with ")" and the
\* last two words are not a date, parse_name returns the time of the clock,
\* the identifier made of the third word from the end and the title without
\* its last three words; it does so for every such input, those of fewer than
\* three words included.
C17_TieBreakChopsThree ==
    (parsed # Pending /\ DateShaped(Tokens) /\ NoDateIn(Tokens))
        => /\ parsed.kind = "returned"
           /\ parsed.dt \in Clock
           /\ Len(Tokens) >= 3
                => /\ parsed.n = Slug(Tokens[Len(Tokens) - 2])
                   /\ parsed.t = Join(SubSeq(Tokens, 1, Len(Tokens) - 3))

\* C21: the title returned by parse_name is made of the words that were not
\* taken as the identifier or the date, joined by single blanks in their
\* order: when the date was read from the last two words, these two are not
\* in the title, also when the last word does not end with ")", as in
\* "Ab 03-11-2008 15:07:44".
C21_TitleOmitsDateWords ==
    (parsed.kind = "returned" /\ ~LastStartsWithParenthesis(Tokens) /\ ~NoDateIn(Tokens))
        => LET consumed == IF parsed.n = NoneString THEN 2 ELSE 3
           IN  parsed.t = Join(SubSeq(Tokens, 1, Len(Tokens) - consumed))

\* the characters of a string that are not whitespace
NonBlank(str) == SelectSeq(str, LAMBDA c : c \notin Whitespace)

\* C18: the normalisation only inserts a blank before a "(" that follows a
\* lowercase letter: every character of the input that is not whitespace is
\* kept, that letter too, so that "Ab Rs(Id) (03-11-2008 15:07:44)" has the
\* title "Ab Rs".
C18_NormalisationKeepsCharacters ==
    parsed # Pending
        => /\ NonBlank(Normalise(layer_title)) = NonBlank(layer_title)
           /\ (spacing = "single" /\ title_words = <<WordPlain, WordGlued, WordDate, WordTime>>)
                => parsed.t = <<"A", "b", " ", "R", "s">>

----------------------------------------------------------------------------
(* Properties of wxs_to_dict and gs28_to_ckan, checked under SpecMap *)

\* wxs_to_dict was called on a layer whose title has an identifier, and the
\* identifier up to its first "-" is not a key of org_dict
OrgMissing ==
    /\ mapper_call.fn = "wxs_to_dict"
    /\ LET name == parse_name(layer_title, mapper_call.now)
       IN  /\ name.kind = "returned"
           /\ name.n # NoneString
           /\ \A e \in mapper_call.org_dict : e.key # Fields(name.n, "-")[1]

\* C16: wxs_to_dict does not fail for a missing organisation: for a layer whose
\* identifier is not None and whose org key is not in org_dict it returns a
\* record with owner_org fallback_org_id, author_email "" and author "".
C16_MissingOrgFallsBack ==
    OrgMissing
        => /\ layer_dict.kind = "returned"
           /\ layer_dict.value # None
           /\ layer_dict.value.owner_org = mapper_call.fallback_org_id
           /\ layer_dict.value.author_email = ""
           /\ layer_dict.value.author = ""

C16_Witness ==
    /\ OrgMissing
    /\ title_words = <<WordPlain, WordKeyed>>
    /\ mapper_call.org_dict = {[key |-> KeyZz, value |-> OrgFull]}
    /\ mapper_call.fallback_org_id = "org-fallback"
    /\ layer_dict.kind = "returned"
    /\ layer_dict.value.owner_org = "org-fallback"
    /\ layer_dict.value.title = WordPlain

\* C20: gs28_to_ckan does not fail for a missing organisation: when
\* organization_show reports not-found for the org key of the layer, it
\* returns a record with owner_org fallback_org_id.
C20_Gs28MissingOrgFallsBack ==
    (mapper_call.fn = "gs28_to_ckan" /\ mapper_call.answer = "not_found")
        => /\ layer_dict.kind = "returned"
           /\ layer_dict.value.owner_org = mapper_call.fallback_org_id

----------------------------------------------------------------------------
(* Properties of a harvest, checked under SpecHarvest *)

\* C23: the name of a record built by wxs_to_dict depends on the parsed title
\* only, not on the identifier: layers with the same parsed title and
\* different identifiers get the same name, so upsert_datasets probes one key
\* for each of them, an upsert that finds the record an earlier one wrote
\* updates that record, and the catalog holds one record for these layers.
C23_SameTitleSameRecord ==
    datasets.kind = "returned"
        => /\ \A i, j \in 1..Len(datasets.value) :
                LET di == datasets.value[i]
                    dj == datasets.value[j]
                IN  (di # None /\ dj # None /\ di.title = dj.title) => di.name = dj.name
           /\ (pc \in {"probe", "create", "update", "done"} /\ Len(log) >= 1)
                => log[1].id = CatalogName(slugify(given.title))
           /\ (Len(log) = 2 /\ log[1].answer = "found")
                => /\ log[2].op = "package_update"
                   /\ log[2].arg.name = pre.name
           /\ \A n \in Names :
                catalog[n] # None => SlugOf[n] = slugify(catalog[n].title)

C23_Witness ==
    /\ datasets.kind = "returned"
    /\ layers = <<Join(<<WordPlain, WordParenthesised>>), Join(<<WordPlain, WordKeyed>>)>>
    /\ datasets.value[1] # None
    /\ datasets.value[2] # None
    /\ datasets.value[1].name = datasets.value[2].name
    /\ datasets.value[1].resources # datasets.value[2].resources
    /\ pc = "done"
    /\ remaining = 0
    /\ Len(log) = 2
    /\ log[1].answer = "found"
    /\ log[2].op = "package_update"
    /\ log[2].answer = "ok"
    /\ pre = Draft(datasets.value[1])
    /\ Stored(given.name).resources = given.resources

====
